---- MODULE Spec2Model ----
(***************************************************************************)
(* Lifecycle manager and task orchestrator of the intiface engine flutter  *)
(* bridge (api.rs and api/simple.rs): run_engine, stop_engine, send,       *)
(* send_backend_server_message and the orchestrated run spawned by         *)
(* run_engine (backdoor relay, engine-run task, stop-watcher task).        *)
(*                                                                         *)
(* Host calls are made by the threads of Callers; every statement that     *)
(* reads or writes shared state is one step of its caller.  The tasks of   *)
(* one orchestrated run take one step per poll between two await points.   *)
(***************************************************************************)
EXTENDS Integers, Sequences, FiniteSets, TLC

\* ------------------------------------------------------------------ bounds
MaxCalls == 3         \* host calls made over a behaviour
MaxCycles == 2        \* runtimes created by run_engine over a behaviour
MaxEngineMsgs == 1    \* messages the engine delivers to the sink per cycle
MaxEvents == 1        \* messages the backdoor event stream yields per cycle
MaxCommands == 2      \* backdoor commands published over a behaviour
Capacity == 1         \* messages a receiver of the inbound bus can fall behind
                      \* (broadcast::channel(255) in the source, scaled down)

Callers == {"h1", "h2"}          \* host threads calling into the bridge
Cycles == 1..MaxCycles

VARIABLES
  variant,          \* which of the two bridge files is running
  calls,            \* host calls made so far
  RUN_STATUS,       \* static RUN_STATUS: AtomicBool
  RUNTIME,          \* static RUNTIME: Mutex<Option<Runtime>>; 0 is None
  ENGINE_NOTIFIER,  \* static ENGINE_NOTIFIER: OnceCell; TRUE once set
  pc,               \* position of each host thread
  result,           \* what the last finished call of each host thread returned
  runtime,          \* the local `runtime` of run_engine / stop_engine; 0 is None
  rt,               \* each runtime: "none", "alive", "down"
  orch,             \* the spawned task: "none", "join", "cleared", "done"
  relay,            \* backdoor task: "init", "wait", "loop", "done"
  engine,           \* engine task: "init", "running", "done"
  watcher,          \* stop notification task: "init", "wait", "done"
  woken,            \* tasks whose Notified future was woken and not yet polled
  frontend_ready,   \* the frontend_waiter of the cycle has fired
  engine_stopped,   \* engine.stop() was invoked on the cycle's engine
  backdoor_incoming,\* the cycle's receiver: messages pending in it, -1 once dropped;
                    \* more than Capacity when the oldest ones were overwritten
  commands,         \* backdoor commands published so far
  parse_tasks,      \* detached parse tasks in flight
  events,           \* messages the event stream has yielded
  sink,             \* what the cycle's StreamSink has seen, in order
  overlapped,       \* history: a run_engine call overlapped this running stop_engine call
  since_stop,       \* history: "clean" or "returned" when a stop_engine call has returned
                    \* (without or with an overlapping run_engine) and no call was made
                    \* or was running since; the caller whose run_engine call is the
                    \* first and only call since then; "none" otherwise
  last_call,        \* history: the host thread and the function of the last call
  concurrent,       \* history: some call was made while another call was running
  idle_ctx,         \* history: the caller of the last call, when that call is a
                    \* run_engine made with RUN_STATUS false and a runtime stored
                    \* and no two calls have overlapped so far; "none" otherwise
  active,           \* history: a run_engine succeeded, no stop or completion since
  stop_during,      \* history: stop_engine was called while the cycle's engine ran
  stop_early,       \* history: stop_engine fired the notifier in this cycle before
                    \* its frontend_waiter had fired
  stop_seen,        \* history: stop_engine was called since this runtime was created
  surface_used      \* history: the backdoor task has called engine.backdoor_server()

shared == <<RUN_STATUS, RUNTIME, ENGINE_NOTIFIER>>
callers == <<pc, result, runtime>>
tasks == <<rt, orch, relay, engine, watcher, woken, frontend_ready, engine_stopped>>
buses == <<backdoor_incoming, commands, parse_tasks, events, sink>>
history ==
  <<overlapped, since_stop, last_call, concurrent, idle_ctx, active, stop_during,
    stop_early, stop_seen, surface_used>>
vars == <<variant, calls, shared, callers, tasks, buses, history>>

StartPcs == {"s_store", "s_lock", "s_spawn", "s_save"}
StopPcs == {"t_take", "t_shutdown", "t_clear"}

InStart(t) == pc[t] \in StartPcs
InStop(t) == pc[t] \in StopPcs
OthersIdle(t) == \A u \in Callers \ {t} : pc[u] = "idle"

\* RUNTIME.lock(): the guard lives from line 87 to the end of run_engine
MutexHeld == \E t \in Callers : pc[t] \in {"s_spawn", "s_save"}

Closed(c) == \E i \in 1..Len(sink[c]) : sink[c][i] = "close"
Adds(c, tag) == Cardinality({i \in 1..Len(sink[c]) : sink[c][i] = tag})

\* nothing has been called yet
Idle ==
  /\ calls = 0
  /\ RUN_STATUS = FALSE
  /\ RUNTIME = 0
  /\ ENGINE_NOTIFIER = FALSE
  /\ pc = [t \in Callers |-> "idle"]
  /\ result = [t \in Callers |-> "none"]
  /\ runtime = [t \in Callers |-> 0]
  /\ rt = [c \in Cycles |-> "none"]
  /\ orch = [c \in Cycles |-> "none"]
  /\ relay = [c \in Cycles |-> "init"]
  /\ engine = [c \in Cycles |-> "init"]
  /\ watcher = [c \in Cycles |-> "init"]
  /\ woken = [c \in Cycles |-> {}]
  /\ frontend_ready = [c \in Cycles |-> FALSE]
  /\ engine_stopped = [c \in Cycles |-> FALSE]
  /\ backdoor_incoming = [c \in Cycles |-> -1]
  /\ commands = 0
  /\ parse_tasks = [c \in Cycles |-> 0]
  /\ events = [c \in Cycles |-> 0]
  /\ sink = [c \in Cycles |-> <<>>]
  /\ overlapped = [t \in Callers |-> FALSE]
  /\ since_stop = "none"
  /\ last_call = <<"none", "none">>
  /\ concurrent = FALSE
  /\ idle_ctx = "none"
  /\ active = FALSE
  /\ stop_during = [c \in Cycles |-> FALSE]
  /\ stop_early = [c \in Cycles |-> FALSE]
  /\ stop_seen = [c \in Cycles |-> FALSE]
  /\ surface_used = [c \in Cycles |-> FALSE]

Init == variant = "api" /\ Idle

\* the bridge built from either of its two files
Variants == {"api", "simple"}
InitVariants == variant \in Variants /\ Idle

\* ------------------------------------------------------------ primitives
\* the Notified futures that are registered with ENGINE_NOTIFIER: the relay's
\* (lines 133 and 167) and the stop notification task's (line 186)
Registered(c) ==
  (IF relay[c] \in {"wait", "loop"} THEN {"relay"} ELSE {})
    \cup (IF watcher[c] = "wait" THEN {"watcher"} ELSE {})

\* a notifier that stores its firing: every task is woken, whether its Notified
\* future exists yet or not
NotifyStored ==
  [c \in Cycles |-> {"relay", "watcher"}]

\* Notify::notify_waiters(): wakes the waiters registered now, stores no permit
NotifyWaiters ==
  [c \in Cycles |-> IF rt[c] = "alive" THEN woken[c] \cup Registered(c) ELSE woken[c]]

\* BACKDOOR_INCOMING_BROADCASTER.receiver_count()
ReceiverCount == Cardinality({c \in Cycles : backdoor_incoming[c] >= 0})

Created == Cardinality({c \in Cycles : rt[c] # "none"})

AllDone(c) == relay[c] = "done" /\ engine[c] = "done" /\ watcher[c] = "done"

\* a worker thread is inside a poll of the spawned task: the first poll of
\* join! has polled the backdoor task and not yet the stop notification task,
\* or the join has completed and the statements after it are running
MidPoll(c) ==
  \/ relay[c] # "init" /\ watcher[c] = "init"
  \/ orch[c] = "join" /\ AllDone(c)
  \/ orch[c] = "cleared"

Return(t, r) ==
  /\ pc' = [pc EXCEPT ![t] = "idle"]
  /\ result' = [result EXCEPT ![t] = r]

\* ------------------------------------------------------------ host calls
\* a host thread enters one of the exported functions
Call(t, fn) ==
  /\ pc[t] = "idle"
  /\ calls < MaxCalls
  /\ calls' = calls + 1
  /\ last_call' = <<t, fn>>
  /\ concurrent' = (concurrent \/ ~OthersIdle(t))

\* ------------------------------------------------------------ run_engine
\* run_engine_check without the test of line 82: the store of line 85 comes next
\* whatever RUN_STATUS reads
run_engine_check_unguarded(t) ==
  /\ Call(t, "run_engine")
  /\ pc' = [pc EXCEPT ![t] = "s_store"]
  /\ since_stop' = (IF since_stop \in {"clean", "returned"} THEN t ELSE "none")
  /\ overlapped' = [u \in Callers |-> InStop(u) \/ overlapped[u]]
  /\ idle_ctx' = (IF ~RUN_STATUS /\ RUNTIME # 0 /\ ~concurrent' THEN t ELSE "none")
  /\ UNCHANGED <<variant, shared, result, runtime, tasks, buses, active, stop_during,
                 stop_early, stop_seen, surface_used>>

\* lines 80-84
run_engine_check(t) ==
  /\ Call(t, "run_engine")
  /\ IF RUN_STATUS
       THEN Return(t, "AlreadyRunning") /\ since_stop' = "none"
       ELSE /\ pc' = [pc EXCEPT ![t] = "s_store"]
            /\ since_stop' = (IF since_stop \in {"clean", "returned"} THEN t ELSE "none")
            /\ UNCHANGED result
  /\ overlapped' = [u \in Callers |-> InStop(u) \/ overlapped[u]]
  /\ idle_ctx' = (IF ~RUN_STATUS /\ RUNTIME # 0 /\ ~concurrent' THEN t ELSE "none")
  /\ UNCHANGED <<variant, shared, runtime, tasks, buses, active, stop_during,
                 stop_early, stop_seen, surface_used>>

\* line 85
run_engine_store(t) ==
  /\ pc[t] = "s_store"
  /\ RUN_STATUS' = TRUE
  /\ pc' = [pc EXCEPT ![t] = "s_lock"]
  /\ UNCHANGED <<variant, calls, RUNTIME, ENGINE_NOTIFIER, result, runtime, tasks,
                 buses, history>>

\* run_engine_init without the test of line 89: a runtime is created although
\* one is stored
run_engine_init_unguarded(t) ==
  /\ pc[t] = "s_lock"
  /\ ~MutexHeld
  /\ Created < MaxCycles
  /\ LET c == Created + 1 IN
       /\ rt' = [rt EXCEPT ![c] = "alive"]
       /\ runtime' = [runtime EXCEPT ![t] = c]
       /\ backdoor_incoming' = [backdoor_incoming EXCEPT ![c] = 0]
  /\ ENGINE_NOTIFIER' = TRUE
  /\ pc' = [pc EXCEPT ![t] = "s_spawn"]
  /\ UNCHANGED <<variant, calls, RUN_STATUS, RUNTIME, result, orch, relay, engine,
                 watcher, woken, frontend_ready, engine_stopped, commands, parse_tasks,
                 events, sink, history>>

\* lines 87-118: take the lock, refuse if a runtime is stored, else create the
\* runtime, the notifier if absent, the frontend, the engine and the receiver
run_engine_init(t) ==
  /\ pc[t] = "s_lock"
  /\ ~MutexHeld
  /\ IF RUNTIME # 0
       THEN /\ Return(t, "AlreadyInitialized")
            /\ UNCHANGED <<ENGINE_NOTIFIER, runtime, rt, backdoor_incoming>>
       ELSE /\ Created < MaxCycles
            /\ LET c == Created + 1 IN
                 /\ rt' = [rt EXCEPT ![c] = "alive"]
                 /\ runtime' = [runtime EXCEPT ![t] = c]
                 /\ backdoor_incoming' = [backdoor_incoming EXCEPT ![c] = 0]
            /\ ENGINE_NOTIFIER' = TRUE
            /\ pc' = [pc EXCEPT ![t] = "s_spawn"]
            /\ UNCHANGED result
  /\ since_stop' = (IF RUNTIME # 0 THEN "none" ELSE since_stop)
  /\ UNCHANGED <<variant, calls, RUN_STATUS, RUNTIME, orch, relay, engine, watcher,
                 woken, frontend_ready, engine_stopped, commands, parse_tasks, events,
                 sink, overlapped, last_call, concurrent, idle_ctx, active, stop_during,
                 stop_early, stop_seen, surface_used>>

\* lines 120-196: runtime.spawn(...)
run_engine_spawn(t) ==
  /\ pc[t] = "s_spawn"
  /\ orch' = [orch EXCEPT ![runtime[t]] = "join"]
  /\ pc' = [pc EXCEPT ![t] = "s_save"]
  /\ UNCHANGED <<variant, calls, shared, result, runtime, rt, relay, engine, watcher,
                 woken, frontend_ready, engine_stopped, buses, history>>

\* lines 197-198: store the runtime, drop the guard, Ok(())
run_engine_save(t) ==
  /\ pc[t] = "s_save"
  /\ RUNTIME' = runtime[t]
  /\ runtime' = [runtime EXCEPT ![t] = 0]
  /\ Return(t, "Ok")
  /\ active' = (orch[runtime[t]] = "join")
  /\ since_stop' = "none"
  /\ UNCHANGED <<variant, calls, RUN_STATUS, ENGINE_NOTIFIER, tasks, buses,
                 overlapped, last_call, concurrent, idle_ctx, stop_during,
                 stop_early, stop_seen, surface_used>>

\* ------------------------------------------------------------ stop_engine
\* lines 210-216: fire the notifier if it exists, then sleep
stop_engine_notify(t) ==
  /\ Call(t, "stop_engine")
  /\ woken' = IF ENGINE_NOTIFIER THEN NotifyWaiters ELSE woken
  /\ pc' = [pc EXCEPT ![t] = "t_take"]
  /\ overlapped' = [overlapped EXCEPT ![t] = \E u \in Callers : InStart(u)]
  /\ since_stop' = "none"
  /\ idle_ctx' = "none"
  /\ stop_during' = [c \in Cycles |->
        stop_during[c] \/ (RUNTIME = c /\ rt[c] = "alive" /\ engine[c] # "done")]
  /\ stop_early' = [c \in Cycles |->
        stop_early[c] \/ (RUNTIME = c /\ rt[c] = "alive" /\ ~frontend_ready[c])]
  /\ UNCHANGED <<variant, shared, result, runtime, rt, orch, relay, engine, watcher,
                 frontend_ready, engine_stopped, buses, active, surface_used>>
  /\ stop_seen' = [c \in Cycles |-> stop_seen[c] \/ rt[c] = "alive"]

\* stop_engine_take that reads the stored runtime and leaves it in RUNTIME
stop_engine_take_kept(t) ==
  /\ pc[t] = "t_take"
  /\ ~MutexHeld
  /\ runtime' = [runtime EXCEPT ![t] = RUNTIME]
  /\ pc' = [pc EXCEPT ![t] = IF RUNTIME # 0 THEN "t_shutdown" ELSE "t_clear"]
  /\ UNCHANGED <<variant, calls, shared, result, tasks, buses, history>>

\* lines 218-221: runtime = RUNTIME.lock().unwrap().take()
stop_engine_take(t) ==
  /\ pc[t] = "t_take"
  /\ ~MutexHeld
  /\ runtime' = [runtime EXCEPT ![t] = RUNTIME]
  /\ RUNTIME' = 0
  /\ pc' = [pc EXCEPT ![t] = IF RUNTIME # 0 THEN "t_shutdown" ELSE "t_clear"]
  /\ UNCHANGED <<variant, calls, RUN_STATUS, ENGINE_NOTIFIER, result, tasks, buses,
                 history>>

\* stop_engine_shutdown that waits for the spawned task to run to its end
\* before it tears the runtime down
stop_engine_shutdown_joined(t) ==
  /\ pc[t] = "t_shutdown"
  /\ LET c == runtime[t] IN
       /\ orch[c] = "done"
       /\ rt' = [rt EXCEPT ![c] = "down"]
       /\ orch' = [orch EXCEPT ![c] = "none"]
       /\ relay' = [relay EXCEPT ![c] = "init"]
       /\ engine' = [engine EXCEPT ![c] = "init"]
       /\ watcher' = [watcher EXCEPT ![c] = "init"]
       /\ woken' = [woken EXCEPT ![c] = {}]
       /\ frontend_ready' = [frontend_ready EXCEPT ![c] = FALSE]
       /\ engine_stopped' = [engine_stopped EXCEPT ![c] = FALSE]
       /\ backdoor_incoming' = [backdoor_incoming EXCEPT ![c] = -1]
       /\ parse_tasks' = [parse_tasks EXCEPT ![c] = 0]
       /\ stop_during' = [stop_during EXCEPT ![c] = FALSE]
       /\ stop_early' = [stop_early EXCEPT ![c] = FALSE]
       /\ stop_seen' = [stop_seen EXCEPT ![c] = FALSE]
       /\ surface_used' = [surface_used EXCEPT ![c] = FALSE]
  /\ runtime' = [runtime EXCEPT ![t] = 0]
  /\ pc' = [pc EXCEPT ![t] = "t_clear"]
  /\ UNCHANGED <<variant, calls, shared, result, commands, events, sink, overlapped,
                 since_stop, last_call, concurrent, idle_ctx, active>>

\* lines 222-226: rt.shutdown_timeout(1s): the workers finish the poll they are
\* in, then every task of the runtime is dropped where it awaits
stop_engine_shutdown(t) ==
  /\ pc[t] = "t_shutdown"
  /\ LET c == runtime[t] IN
       /\ ~MidPoll(c)
       /\ rt' = [rt EXCEPT ![c] = "down"]
       /\ orch' = [orch EXCEPT ![c] = "none"]
       /\ relay' = [relay EXCEPT ![c] = "init"]
       /\ engine' = [engine EXCEPT ![c] = "init"]
       /\ watcher' = [watcher EXCEPT ![c] = "init"]
       /\ woken' = [woken EXCEPT ![c] = {}]
       /\ frontend_ready' = [frontend_ready EXCEPT ![c] = FALSE]
       /\ engine_stopped' = [engine_stopped EXCEPT ![c] = FALSE]
       /\ backdoor_incoming' = [backdoor_incoming EXCEPT ![c] = -1]
       /\ parse_tasks' = [parse_tasks EXCEPT ![c] = 0]
       /\ stop_during' = [stop_during EXCEPT ![c] = FALSE]
       /\ stop_early' = [stop_early EXCEPT ![c] = FALSE]
       /\ stop_seen' = [stop_seen EXCEPT ![c] = FALSE]
       /\ surface_used' = [surface_used EXCEPT ![c] = FALSE]
  /\ runtime' = [runtime EXCEPT ![t] = 0]
  /\ pc' = [pc EXCEPT ![t] = "t_clear"]
  /\ UNCHANGED <<variant, calls, shared, result, commands, events, sink, overlapped,
                 since_stop, last_call, concurrent, idle_ctx, active>>

\* line 227
stop_engine_clear(t) ==
  /\ pc[t] = "t_clear"
  /\ RUN_STATUS' = FALSE
  /\ Return(t, "stopped")
  /\ active' = FALSE
  /\ since_stop' = (IF ~OthersIdle(t) THEN "none"
                    ELSE IF overlapped[t] THEN "returned" ELSE "clean")
  /\ overlapped' = [overlapped EXCEPT ![t] = FALSE]
  /\ UNCHANGED <<variant, calls, RUNTIME, ENGINE_NOTIFIER, runtime, tasks, buses,
                 last_call, concurrent, idle_ctx, stop_during,
                 stop_early, stop_seen, surface_used>>

\* ------------------------------------------------------------------ send
\* ENGINE_BROADCASTER.receiver_count(): the frontend of a running engine holds
\* a receiver from the moment the engine attaches it until engine.run returns
EngineReceiverCount ==
  Cardinality({c \in Cycles :
                 rt[c] = "alive" /\ engine[c] = "running" /\ frontend_ready[c]})

\* lines 201-203: from_str(..).unwrap() panics on text that is not a message
send_check(t) ==
  /\ Call(t, "send")
  /\ \E wellformed \in BOOLEAN :
       IF ~wellformed
         THEN Return(t, "bad_json")
         ELSE IF EngineReceiverCount > 0
                THEN pc' = [pc EXCEPT ![t] = "e_send"] /\ UNCHANGED result
                ELSE Return(t, "published")
  /\ since_stop' = "none"
  /\ idle_ctx' = "none"
  /\ UNCHANGED <<variant, shared, runtime, tasks, buses, overlapped, active,
                 stop_during, stop_early, stop_seen, surface_used>>

\* lines 204-206: send(msg).expect(...); the message goes to the frontend's
\* receiver and is consumed by the engine
send_send(t) ==
  /\ pc[t] = "e_send"
  /\ Return(t, IF EngineReceiverCount > 0 THEN "published" ELSE "no_receiver")
  /\ UNCHANGED <<variant, calls, shared, runtime, tasks, buses, history>>

\* -------------------------------------------- send_backend_server_message
\* send_backend_server_message_check without the test of line 231: the message
\* is sent whatever the number of receivers
send_backend_server_message_check_unguarded(t) ==
  /\ Call(t, "send_backend_server_message")
  /\ commands < MaxCommands
  /\ commands' = commands + 1
  /\ pc' = [pc EXCEPT ![t] = "b_send"]
  /\ since_stop' = "none"
  /\ idle_ctx' = "none"
  /\ UNCHANGED <<variant, shared, result, runtime, tasks, backdoor_incoming,
                 parse_tasks, events, sink, overlapped, active, stop_during,
                 stop_early, stop_seen, surface_used>>

\* lines 230-231
send_backend_server_message_check(t) ==
  /\ Call(t, "send_backend_server_message")
  /\ commands < MaxCommands
  /\ commands' = commands + 1
  /\ IF ReceiverCount > 0
       THEN pc' = [pc EXCEPT ![t] = "b_send"] /\ UNCHANGED result
       ELSE Return(t, "sent")
  /\ since_stop' = "none"
  /\ idle_ctx' = "none"
  /\ UNCHANGED <<variant, shared, runtime, tasks, backdoor_incoming, parse_tasks,
                 events, sink, overlapped, active, stop_during,
                 stop_early, stop_seen, surface_used>>

\* lines 232-234: send(msg).expect(...): send fails when no receiver is left
send_backend_server_message_send(t) ==
  /\ pc[t] = "b_send"
  /\ IF ReceiverCount > 0
       THEN /\ backdoor_incoming' =
                 [c \in Cycles |-> IF backdoor_incoming[c] \in 0..Capacity
                                     THEN backdoor_incoming[c] + 1
                                     ELSE backdoor_incoming[c]]
            /\ Return(t, "sent")
       ELSE /\ Return(t, "panic")
            /\ UNCHANGED backdoor_incoming
  /\ UNCHANGED <<variant, calls, shared, runtime, tasks, commands, parse_tasks,
                 events, sink, history>>

\* ------------------------------------------------- the orchestrated run
Polled(c) == rt[c] = "alive" /\ orch[c] = "join"

\* a poll of the spawned task after its first one: the first poll of join! has
\* polled the three tasks in the order they are written
PolledAgain(c) == Polled(c) /\ watcher[c] # "init"

\* lines 125-136, first poll: both branches of the first select! are pending
relay_first_poll(c) ==
  /\ Polled(c)
  /\ relay[c] = "init"
  /\ relay' = [relay EXCEPT ![c] = "wait"]
  /\ UNCHANGED <<variant, calls, shared, callers, rt, orch, engine, watcher, woken,
                 frontend_ready, engine_stopped, buses, history>>

\* lines 133-135: the notifier fired before the frontend was ready
relay_cancelled_waiting(c) ==
  /\ PolledAgain(c)
  /\ relay[c] = "wait"
  /\ "relay" \in woken[c]
  /\ relay' = [relay EXCEPT ![c] = "done"]
  /\ woken' = [woken EXCEPT ![c] = @ \ {"relay"}]
  /\ backdoor_incoming' = [backdoor_incoming EXCEPT ![c] = -1]
  /\ UNCHANGED <<variant, calls, shared, callers, rt, orch, engine, watcher, frontend_ready,
                 engine_stopped, commands, parse_tasks, events, sink, history>>

\* relay_frontend_ready without the first select!: the backdoor server is
\* fetched as soon as the task is polled again
relay_frontend_ready_unawaited(c) ==
  /\ PolledAgain(c)
  /\ relay[c] = "wait"
  /\ woken' = [woken EXCEPT ![c] = @ \ {"relay"}]
  /\ \E server \in BOOLEAN :
       IF server
         THEN /\ relay' = [relay EXCEPT ![c] = "loop"]
              /\ UNCHANGED backdoor_incoming
         ELSE /\ relay' = [relay EXCEPT ![c] = "done"]
              /\ backdoor_incoming' = [backdoor_incoming EXCEPT ![c] = -1]
  /\ surface_used' = [surface_used EXCEPT ![c] = TRUE]
  /\ UNCHANGED <<variant, calls, shared, callers, rt, orch, engine, watcher, frontend_ready,
                 engine_stopped, commands, parse_tasks, events, sink, overlapped,
                 since_stop, last_call, concurrent, idle_ctx, active, stop_during,
                 stop_early, stop_seen>>

\* lines 130-146: the frontend_waiter branch wins and engine.backdoor_server()
\* is called (line 138); the Notified future of the first select! is dropped and
\* the loop registers a new one
relay_frontend_ready(c) ==
  /\ PolledAgain(c)
  /\ relay[c] = "wait"
  /\ frontend_ready[c]
  /\ woken' = [woken EXCEPT ![c] = @ \ {"relay"}]
  /\ \E server \in BOOLEAN :
       IF server
         THEN /\ relay' = [relay EXCEPT ![c] = "loop"]
              /\ UNCHANGED backdoor_incoming
         ELSE /\ relay' = [relay EXCEPT ![c] = "done"]
              /\ backdoor_incoming' = [backdoor_incoming EXCEPT ![c] = -1]
  /\ surface_used' = [surface_used EXCEPT ![c] = TRUE]
  /\ UNCHANGED <<variant, calls, shared, callers, rt, orch, engine, watcher, frontend_ready,
                 engine_stopped, commands, parse_tasks, events, sink, overlapped,
                 since_stop, last_call, concurrent, idle_ctx, active, stop_during,
                 stop_early, stop_seen>>

\* relay_recv that awaits parse_message inside the loop: no command is taken
\* while a parse is in flight
relay_recv_inline(c) ==
  /\ PolledAgain(c)
  /\ relay[c] = "loop"
  /\ parse_tasks[c] = 0
  /\ backdoor_incoming[c] \in 1..Capacity
  /\ backdoor_incoming' = [backdoor_incoming EXCEPT ![c] = @ - 1]
  /\ parse_tasks' = [parse_tasks EXCEPT ![c] = @ + 1]
  /\ woken' = [woken EXCEPT ![c] = @ \ {"relay"}]
  /\ UNCHANGED <<variant, calls, shared, callers, rt, orch, relay, engine, watcher,
                 frontend_ready, engine_stopped, commands, events, sink, history>>

\* relay_recv that leaves the loop after it has spawned the parse task
relay_recv_break(c) ==
  /\ PolledAgain(c)
  /\ relay[c] = "loop"
  /\ backdoor_incoming[c] > 0
  /\ backdoor_incoming' = [backdoor_incoming EXCEPT ![c] = -1]
  /\ parse_tasks' = [parse_tasks EXCEPT ![c] = @ + 1]
  /\ relay' = [relay EXCEPT ![c] = "done"]
  /\ woken' = [woken EXCEPT ![c] = @ \ {"relay"}]
  /\ UNCHANGED <<variant, calls, shared, callers, rt, orch, engine, watcher,
                 frontend_ready, engine_stopped, commands, events, sink, history>>

\* lines 148-157: a command arrives; its parse task is spawned detached and the
\* next iteration of the loop registers a new Notified future
relay_recv(c) ==
  /\ PolledAgain(c)
  /\ relay[c] = "loop"
  /\ backdoor_incoming[c] \in 1..Capacity
  /\ backdoor_incoming' = [backdoor_incoming EXCEPT ![c] = @ - 1]
  /\ parse_tasks' = [parse_tasks EXCEPT ![c] = @ + 1]
  /\ woken' = [woken EXCEPT ![c] = @ \ {"relay"}]
  /\ UNCHANGED <<variant, calls, shared, callers, rt, orch, relay, engine, watcher,
                 frontend_ready, engine_stopped, commands, events, sink, history>>

\* lines 148-149 and 158: recv() returns Err: the sender is a static and never
\* closes the bus, so the error is Lagged, returned when the receiver fell more
\* than the capacity behind; the loop is left
relay_recv_lagged(c) ==
  /\ PolledAgain(c)
  /\ relay[c] = "loop"
  /\ backdoor_incoming[c] > Capacity
  /\ relay' = [relay EXCEPT ![c] = "done"]
  /\ woken' = [woken EXCEPT ![c] = @ \ {"relay"}]
  /\ backdoor_incoming' = [backdoor_incoming EXCEPT ![c] = -1]
  /\ UNCHANGED <<variant, calls, shared, callers, rt, orch, engine, watcher, frontend_ready,
                 engine_stopped, commands, parse_tasks, events, sink, history>>

\* lines 154-156: sink.add(backdoor_server_clone.parse_message(&msg).await)
parse_task_done(c) ==
  /\ rt[c] = "alive"
  /\ parse_tasks[c] > 0
  /\ parse_tasks' = [parse_tasks EXCEPT ![c] = @ - 1]
  /\ sink' = [sink EXCEPT ![c] = Append(@, "response")]
  /\ UNCHANGED <<variant, calls, shared, callers, tasks, backdoor_incoming, commands, events,
                 history>>

\* lines 161-163: the event stream yields a message
relay_event(c) ==
  /\ PolledAgain(c)
  /\ relay[c] = "loop"
  /\ events[c] < MaxEvents
  /\ events' = [events EXCEPT ![c] = @ + 1]
  /\ sink' = [sink EXCEPT ![c] = Append(@, "event")]
  /\ woken' = [woken EXCEPT ![c] = @ \ {"relay"}]
  /\ UNCHANGED <<variant, calls, shared, callers, rt, orch, relay, engine, watcher,
                 frontend_ready, engine_stopped, backdoor_incoming, commands,
                 parse_tasks, history>>

\* relay_stream_end that fires the notifier on its way out
relay_stream_end_notifying(c) ==
  /\ PolledAgain(c)
  /\ relay[c] = "loop"
  /\ relay' = [relay EXCEPT ![c] = "done"]
  /\ woken' = [d \in Cycles |-> NotifyWaiters[d] \ (IF d = c THEN {"relay"} ELSE {})]
  /\ backdoor_incoming' = [backdoor_incoming EXCEPT ![c] = -1]
  /\ UNCHANGED <<variant, calls, shared, callers, rt, orch, engine, watcher, frontend_ready,
                 engine_stopped, commands, parse_tasks, events, sink, history>>

\* line 164: the event stream ends
relay_stream_end(c) ==
  /\ PolledAgain(c)
  /\ relay[c] = "loop"
  /\ relay' = [relay EXCEPT ![c] = "done"]
  /\ woken' = [woken EXCEPT ![c] = @ \ {"relay"}]
  /\ backdoor_incoming' = [backdoor_incoming EXCEPT ![c] = -1]
  /\ UNCHANGED <<variant, calls, shared, callers, rt, orch, engine, watcher, frontend_ready,
                 engine_stopped, commands, parse_tasks, events, sink, history>>

\* line 167: the notifier fired while the loop was waiting
relay_cancelled_loop(c) ==
  /\ PolledAgain(c)
  /\ relay[c] = "loop"
  /\ "relay" \in woken[c]
  /\ relay' = [relay EXCEPT ![c] = "done"]
  /\ woken' = [woken EXCEPT ![c] = @ \ {"relay"}]
  /\ backdoor_incoming' = [backdoor_incoming EXCEPT ![c] = -1]
  /\ UNCHANGED <<variant, calls, shared, callers, rt, orch, engine, watcher, frontend_ready,
                 engine_stopped, commands, parse_tasks, events, sink, history>>

\* lines 174-176, first poll, after the backdoor task's: engine.run is entered
engine_first_poll(c) ==
  /\ Polled(c)
  /\ relay[c] # "init"
  /\ engine[c] = "init"
  /\ engine' = [engine EXCEPT ![c] = "running"]
  /\ UNCHANGED <<variant, calls, shared, callers, rt, orch, relay, watcher, woken,
                 frontend_ready, engine_stopped, buses, history>>

\* line 176: the running engine attaches the frontend, which fires the
\* frontend_waiter of line 107
engine_attaches_frontend(c) ==
  /\ Polled(c)
  /\ engine[c] = "running"
  /\ ~frontend_ready[c]
  /\ frontend_ready' = [frontend_ready EXCEPT ![c] = TRUE]
  /\ UNCHANGED <<variant, calls, shared, callers, rt, orch, relay, engine, watcher, woken,
                 engine_stopped, buses, history>>

\* lines 102-105 and 176: the running engine sends a message through the frontend
engine_message(c) ==
  /\ Polled(c)
  /\ engine[c] = "running"
  /\ Adds(c, "engine") < MaxEngineMsgs
  /\ sink' = [sink EXCEPT ![c] = Append(@, "engine")]
  /\ UNCHANGED <<variant, calls, shared, callers, tasks, backdoor_incoming, commands,
                 parse_tasks, events, history>>

\* lines 176-180: engine.run returns, with or without an error, and the task
\* fires the notifier
engine_run_returns(c) ==
  /\ Polled(c)
  /\ engine[c] = "running"
  /\ engine' = [engine EXCEPT ![c] = "done"]
  /\ woken' = NotifyWaiters
  /\ UNCHANGED <<variant, calls, shared, callers, rt, orch, relay, watcher, frontend_ready,
                 engine_stopped, buses, history>>

\* lines 184-186, first poll, after the engine task's
watcher_first_poll(c) ==
  /\ Polled(c)
  /\ engine[c] # "init"
  /\ watcher[c] = "init"
  /\ watcher' = [watcher EXCEPT ![c] = "wait"]
  /\ UNCHANGED <<variant, calls, shared, callers, rt, orch, relay, engine, woken,
                 frontend_ready, engine_stopped, buses, history>>

\* lines 186-188: notified, the task stops the engine
watcher_stops_engine(c) ==
  /\ Polled(c)
  /\ watcher[c] = "wait"
  /\ "watcher" \in woken[c]
  /\ watcher' = [watcher EXCEPT ![c] = "done"]
  /\ woken' = [woken EXCEPT ![c] = @ \ {"watcher"}]
  /\ engine_stopped' = [engine_stopped EXCEPT ![c] = TRUE]
  /\ UNCHANGED <<variant, calls, shared, callers, rt, orch, relay, engine, frontend_ready,
                 buses, history>>

\* orch_clear after a first-to-finish wait: the statements after the join run as
\* soon as the engine task is done
orch_clear_first(c) ==
  /\ Polled(c)
  /\ engine[c] = "done"
  /\ RUN_STATUS' = FALSE
  /\ orch' = [orch EXCEPT ![c] = IF variant = "api" THEN "cleared" ELSE "done"]
  /\ active' = FALSE
  /\ UNCHANGED <<variant, calls, RUNTIME, ENGINE_NOTIFIER, callers, rt, relay,
                 engine, watcher, woken, frontend_ready, engine_stopped, buses,
                 overlapped, since_stop, last_call, concurrent, idle_ctx, stop_during,
                 stop_early, stop_seen, surface_used>>

\* line 191 (simple.rs line 166, where the spawned task ends after it)
orch_clear(c) ==
  /\ Polled(c)
  /\ AllDone(c)
  /\ RUN_STATUS' = FALSE
  /\ orch' = [orch EXCEPT ![c] = IF variant = "api" THEN "cleared" ELSE "done"]
  /\ active' = FALSE
  /\ UNCHANGED <<variant, calls, RUNTIME, ENGINE_NOTIFIER, callers, rt, relay,
                 engine, watcher, woken, frontend_ready, engine_stopped, buses,
                 overlapped, since_stop, last_call, concurrent, idle_ctx, stop_during,
                 stop_early, stop_seen, surface_used>>

\* line 192 of api.rs: sink_clone.close()
orch_close(c) ==
  /\ rt[c] = "alive"
  /\ orch[c] = "cleared"
  /\ sink' = [sink EXCEPT ![c] = Append(@, "close")]
  /\ orch' = [orch EXCEPT ![c] = "done"]
  /\ UNCHANGED <<variant, calls, shared, callers, rt, relay, engine, watcher, woken,
                 frontend_ready, engine_stopped, backdoor_incoming, commands,
                 parse_tasks, events, history>>

\* ------------------------------------------------------- specification
Host(t) ==
  \/ run_engine_check(t)
  \/ run_engine_store(t)
  \/ run_engine_init(t)
  \/ run_engine_spawn(t)
  \/ run_engine_save(t)
  \/ stop_engine_notify(t)
  \/ stop_engine_take(t)
  \/ stop_engine_shutdown(t)
  \/ stop_engine_clear(t)
  \/ send_check(t)
  \/ send_send(t)
  \/ send_backend_server_message_check(t)
  \/ send_backend_server_message_send(t)

Task(c) ==
  \/ relay_first_poll(c)
  \/ relay_cancelled_waiting(c)
  \/ relay_frontend_ready(c)
  \/ relay_recv(c)
  \/ relay_recv_lagged(c)
  \/ parse_task_done(c)
  \/ relay_event(c)
  \/ relay_stream_end(c)
  \/ relay_cancelled_loop(c)
  \/ engine_first_poll(c)
  \/ engine_attaches_frontend(c)
  \/ engine_message(c)
  \/ engine_run_returns(c)
  \/ watcher_first_poll(c)
  \/ watcher_stops_engine(c)
  \/ orch_clear(c)
  \/ orch_close(c)

Next == (\E t \in Callers : Host(t)) \/ (\E c \in Cycles : Task(c))

Spec == Init /\ [][Next]_vars

\* a host thread that is inside a call runs on: no function of the bridge
\* waits for anything but the RUNTIME mutex and the end of the current poll
HostProgress(t) ==
  \/ run_engine_store(t)
  \/ run_engine_init(t)
  \/ run_engine_spawn(t)
  \/ run_engine_save(t)
  \/ stop_engine_take(t)
  \/ stop_engine_shutdown(t)
  \/ stop_engine_clear(t)
  \/ send_send(t)
  \/ send_backend_server_message_send(t)

\* the runtime polls the spawned task and the parse tasks whenever they can run;
\* the engine attaches its frontend, and returns once it was asked to stop
TaskProgress(c) ==
  \/ relay_first_poll(c)
  \/ relay_cancelled_waiting(c)
  \/ relay_frontend_ready(c)
  \/ relay_recv(c)
  \/ relay_recv_lagged(c)
  \/ parse_task_done(c)
  \/ relay_cancelled_loop(c)
  \/ engine_first_poll(c)
  \/ engine_attaches_frontend(c)
  \/ engine_stopped[c] /\ engine_run_returns(c)
  \/ watcher_first_poll(c)
  \/ watcher_stops_engine(c)
  \/ orch_clear(c)
  \/ orch_close(c)

FairSpec ==
  /\ Spec
  /\ \A t \in Callers : WF_vars(HostProgress(t))
  /\ \A c \in Cycles : WF_vars(TaskProgress(c))

VariantSpec == InitVariants /\ [][Next]_vars

\* ---------------------------------------------------------------- claims
StartResults == {"Ok", "AlreadyRunning", "AlreadyInitialized"}
AllIdle == \A t \in Callers : pc[t] = "idle"

\* this step is host thread t entering run_engine
StartCalled(t) ==
  /\ calls' = calls + 1
  /\ last_call' = <<t, "run_engine">>

\* this step is host thread t returning from run_engine
StartReturns(t) ==
  /\ pc'[t] = "idle"
  /\ \/ pc[t] \in StartPcs
     \/ StartCalled(t)

\* this step delivers close() to the sink of cycle c
SinkCloses(c) ==
  /\ Len(sink'[c]) = Len(sink[c]) + 1
  /\ sink'[c][Len(sink'[c])] = "close"

\* C1: run_engine called while RUN_STATUS reads true returns AlreadyRunning in
\* that step and changes neither RUN_STATUS, the RUNTIME slot, the notifier, the
\* tasks of any runtime nor the receivers of the inbound bus.
C1_StartWhileRunningHasNoEffect ==
  [][\A t \in Callers :
       (StartCalled(t) /\ RUN_STATUS) =>
         /\ pc'[t] = "idle"
         /\ result'[t] = "AlreadyRunning"
         /\ UNCHANGED <<shared, runtime, tasks, buses>>]_vars

C1_Witness ==
  \E t \in Callers : \E c \in Cycles :
    /\ pc[t] = "idle" /\ result[t] = "AlreadyRunning"
    /\ RUN_STATUS /\ RUNTIME = c /\ engine[c] = "running"

\* C2: a run_engine call made while RUN_STATUS reads false and a runtime is
\* stored, in a history of calls that never overlapped, fails with
\* AlreadyInitialized and leaves RUN_STATUS false.
C2_FailedStartLeavesIdle ==
  \A t \in Callers :
    (idle_ctx = t /\ pc[t] = "idle") =>
      (result[t] = "AlreadyInitialized" /\ ~RUN_STATUS)

\* C3: in a history of calls that never overlapped, a run_engine call returns
\* AlreadyRunning exactly when an earlier run_engine succeeded and neither a
\* stop_engine has returned nor the orchestrated run has completed since.
C3_AlreadyRunningIffActive ==
  [][\A t \in Callers :
       (StartCalled(t) /\ ~concurrent') =>
         ((pc'[t] = "idle" /\ result'[t] = "AlreadyRunning") <=> active)]_vars

\* C4: the run_engine call that is the first call after a stop_engine call has
\* returned, with no other call made or running in between, returns Ok.
C4_StartAfterStopSucceeds ==
  [][\A t \in Callers :
       (StartReturns(t) /\ (since_stop = t \/ since_stop \in {"clean", "returned"})) =>
         result'[t] = "Ok"]_vars

\* C5: at most one runtime exists and at most one engine-run task is active.
C5_SingleContextAndEngine ==
  /\ Cardinality({c \in Cycles : rt[c] = "alive"}) <= 1
  /\ Cardinality({c \in Cycles : rt[c] = "alive" /\ engine[c] = "running"}) <= 1

\* C6: when the only calls made are two run_engine calls, one by each host
\* thread, and both have returned, exactly one returned Ok and exactly one
\* runtime and one orchestrated run were created; in every state at most one
\* runtime exists that no stop_engine has taken.
Taken(c) == rt[c] = "down" \/ \E t \in Callers : InStop(t) /\ runtime[t] = c

C6_OneOfTwoStartsWins ==
  /\ Cardinality({c \in Cycles : rt[c] = "alive" /\ ~Taken(c)}) <= 1
  /\ (calls = 2 /\ AllIdle /\ \A t \in Callers : result[t] \in StartResults) =>
       /\ Cardinality({t \in Callers : result[t] = "Ok"}) = 1
       /\ Cardinality({c \in Cycles : rt[c] # "none"}) = 1
       /\ Cardinality({c \in Cycles : orch[c] # "none"}) = 1

\* both calls passed the test of line 82: the orchestrated run was never polled,
\* so RUN_STATUS was never cleared, and the loser got as far as line 89
C6_Witness ==
  /\ calls = 2 /\ AllIdle
  /\ \E t \in Callers : \E u \in Callers :
       result[t] = "Ok" /\ result[u] = "AlreadyInitialized"
  /\ orch[1] = "join" /\ relay[1] = "init"

\* C7: when a stop_engine call returns that no run_engine call overlapped,
\* RUN_STATUS reads false and RUNTIME is empty.
C7_StopLeavesIdleAndEmpty ==
  [][\A t \in Callers :
       (pc[t] = "t_clear" /\ pc'[t] = "idle" /\ ~overlapped[t]) =>
         (~RUN_STATUS' /\ RUNTIME' = 0)]_vars

\* a runtime existed and was running when stop_engine was called
C7_Witness ==
  /\ since_stop = "clean"
  /\ rt[1] = "down"
  /\ ~RUN_STATUS /\ RUNTIME = 0

\* C8: nothing is added to a sink after its close().
C8_NoAddAfterClose ==
  \A c \in Cycles : \A i \in 1..Len(sink[c]) :
    sink[c][i] = "close" => i = Len(sink[c])

\* C9: a sink is closed only by a step of the spawned task, after the three
\* joined tasks are done and after the store of line 191, and only if it is not
\* closed yet; no step of a host thread closes it.
C9_CloseOnlyAfterJoin ==
  [][\A c \in Cycles :
       SinkCloses(c) =>
         /\ AllDone(c)
         /\ orch[c] = "cleared" /\ orch'[c] = "done"
         /\ ~Closed(c)
         /\ UNCHANGED callers]_vars

C9_Witness ==
  \E c \in Cycles : Closed(c) /\ orch[c] = "done" /\ AllDone(c) /\ engine_stopped[c]

\* C10: when stop_engine shuts a runtime down and a stop_engine call was made
\* after the run_engine of that cycle returned Ok and while its engine had not
\* returned, engine.stop() has been invoked on that engine.
C10_EngineStoppedBeforeTeardown ==
  [][\A t \in Callers :
       (pc[t] = "t_shutdown" /\ pc'[t] = "t_clear" /\ stop_during[runtime[t]]) =>
         engine_stopped[runtime[t]]]_vars

\* C11: once stop_engine is called after a run_engine that returned Ok and while
\* the engine of that cycle runs, the sink of the cycle is eventually closed.
C11_SinkEventuallyClosed ==
  \A c \in Cycles : stop_during[c] ~> Closed(c)

\* C12: in a behaviour without any stop_engine call, once engine.run has
\* returned the sink of the cycle is eventually closed with RUN_STATUS cleared
\* by the spawned task.
C12_NaturalCompletionCloses ==
  ([](\A t \in Callers : ~InStop(t))) =>
    (\A c \in Cycles : (engine[c] = "done") ~> (Closed(c) /\ orch[c] = "done"))

\* this step is the stop notification task of cycle c invoking engine.stop()
EngineStopInvoked(c) == ~engine_stopped[c] /\ engine_stopped'[c]

\* this step is a host thread entering stop_engine
StopCalled ==
  /\ calls' = calls + 1
  /\ \E t \in Callers : last_call' = <<t, "stop_engine">>

\* this step is engine.run of cycle c returning
EngineReturns(c) == engine[c] = "running" /\ engine'[c] = "done"

\* C13: engine.stop() is invoked in a cycle only by a stop notification task
\* that the notifier woke, and only if the engine.run of that cycle has returned
\* or stop_engine was called since the runtime of the cycle was created.
C13_StopOnlyAfterCause ==
  [][\A c \in Cycles :
       EngineStopInvoked(c) =>
         /\ "watcher" \in woken[c]
         /\ engine[c] = "done" \/ stop_seen[c]]_vars

\* this step is the backdoor task of cycle c reaching the backdoor server:
\* engine.backdoor_server(), event_stream() or a parse_message result
SurfaceAccessed(c) ==
  \/ ~surface_used[c] /\ surface_used'[c]
  \/ relay[c] # "loop" /\ relay'[c] = "loop"
  \/ parse_tasks'[c] > parse_tasks[c]
  \/ /\ Len(sink'[c]) > Len(sink[c])
     /\ sink'[c][Len(sink'[c])] \in {"event", "response"}

\* C14: every step in which the backdoor task reaches the backdoor server is
\* taken after the frontend_waiter of the cycle has fired.
C14_SurfaceOnlyAfterFrontendReady ==
  [][\A c \in Cycles : SurfaceAccessed(c) => frontend_ready[c]]_vars

C14_Witness ==
  \E c \in Cycles :
    /\ frontend_ready[c] /\ surface_used[c] /\ relay[c] = "loop"
    /\ Adds(c, "event") > 0 /\ Adds(c, "response") > 0

\* C15: in a cycle where stop_engine fired the notifier, after run_engine
\* returned Ok and before the frontend_waiter fired, the backdoor task never
\* reaches the backdoor server.
C15_NoSurfaceAfterEarlyStop ==
  [][\A c \in Cycles : stop_early[c] => ~SurfaceAccessed(c)]_vars

ResponseAdded(c) ==
  /\ Len(sink'[c]) = Len(sink[c]) + 1
  /\ sink'[c][Len(sink'[c])] = "response"

Called(t, fn) ==
  /\ calls' = calls + 1
  /\ last_call' = <<t, fn>>

\* C18: send, called with text that deserializes, and
\* send_backend_server_message, called while their bus has no receiver, return
\* in that step without a panic and change neither the shared state, the
\* tasks, the receivers nor the sinks.
C18_PublishWithoutSubscriberIsNoOp ==
  [][\A t \in Callers :
       /\ (Called(t, "send") /\ EngineReceiverCount = 0 /\ result'[t] # "bad_json") =>
            /\ pc'[t] = "idle" /\ result'[t] = "published"
            /\ UNCHANGED <<shared, runtime, tasks, backdoor_incoming, parse_tasks,
                           events, sink>>
       /\ (Called(t, "send_backend_server_message") /\ ReceiverCount = 0) =>
            /\ pc'[t] = "idle" /\ result'[t] = "sent"
            /\ UNCHANGED <<shared, runtime, tasks, backdoor_incoming, parse_tasks,
                           events, sink>>]_vars

\* both functions were called with no runtime ever created
C18_Witness ==
  /\ Created = 0 /\ commands = 1
  /\ \E t \in Callers : \E u \in Callers :
       result[t] = "published" /\ result[u] = "sent"

\* C19: every stop_engine call returns, whatever the engine does.
C19_StopAlwaysReturns ==
  \A t \in Callers : InStop(t) ~> (pc[t] = "idle")

\* stop_engine has returned from tearing down a runtime whose engine was never
\* asked to stop and whose spawned task never reached its end
C19_Witness ==
  \E t \in Callers :
    /\ pc[t] = "idle" /\ result[t] = "stopped"
    /\ rt[1] = "down" /\ ~Closed(1)

\* C20: no call of send_backend_server_message ends in a panic.
C20_BackdoorSendNeverPanics ==
  \A t \in Callers : result[t] # "panic"

\* C21: the backdoor task never leaves its loop through the inbound branch:
\* the inbound bus is never closed, and a backlog larger than the capacity of
\* the bus does not make recv() end the loop.
C21_BacklogDoesNotEndRelay ==
  [][\A c \in Cycles : ~relay_recv_lagged(c)]_vars

\* C22: while parse tasks are in flight the looping backdoor task can still
\* take the next pending command, deliver the next message of the event stream
\* and leave on cancellation.
C22_ParseNeverBlocksRelay ==
  \A c \in Cycles :
    (PolledAgain(c) /\ relay[c] = "loop" /\ parse_tasks[c] > 0) =>
      /\ (backdoor_incoming[c] \in 1..Capacity) => ENABLED relay_recv(c)
      /\ (events[c] < MaxEvents) => ENABLED relay_event(c)
      /\ ("relay" \in woken[c]) => ENABLED relay_cancelled_loop(c)
      /\ ENABLED relay_stream_end(c)

\* a second command is pending while the parse task of the first is in flight
C22_Witness ==
  \E c \in Cycles :
    /\ PolledAgain(c) /\ relay[c] = "loop"
    /\ parse_tasks[c] = 1 /\ backdoor_incoming[c] = 1

\* C23: a firing of the notifier that reached the looping backdoor task is not
\* lost: the task stays woken until it leaves the loop.
C23_FiringEndsRelayLoop ==
  [][\A c \in Cycles :
       (relay[c] = "loop" /\ "relay" \in woken[c] /\ rt'[c] = "alive") =>
         (relay'[c] = "done" \/ "relay" \in woken'[c])]_vars

\* C24: while engine.run of a live runtime has been entered and has not
\* returned, RUN_STATUS reads true.
C24_RunningWhileEngineActive ==
  \A c \in Cycles : (rt[c] = "alive" /\ engine[c] = "running") => RUN_STATUS

\* this step is the backdoor task of cycle c finishing without having been
\* woken by the notifier: no backdoor server, event stream ended, recv() error
RelayEndsOnItsOwn(c) ==
  /\ relay[c] \in {"wait", "loop"} /\ relay'[c] = "done"
  /\ "relay" \notin woken[c]
  /\ rt'[c] = "alive"

\* C25: the step in which the backdoor task finishes on its own wakes no task,
\* invokes no engine.stop(), and leaves RUN_STATUS, the stored runtime, the
\* engine task, the stop notification task, the join and the sinks as they are.
C25_RelayExitHasNoEffect ==
  [][\A c \in Cycles :
       RelayEndsOnItsOwn(c) =>
         UNCHANGED <<shared, callers, rt, orch, engine, watcher, woken, engine_stopped,
                     sink>>]_vars

\* the backdoor task is gone while the engine runs on and the join waits
C25_Witness ==
  \E c \in Cycles :
    /\ rt[c] = "alive" /\ relay[c] = "done" /\ ~stop_seen[c]
    /\ engine[c] = "running" /\ watcher[c] = "wait" /\ woken[c] = {}
    /\ orch[c] = "join" /\ RUN_STATUS /\ ~Closed(c) /\ ~engine_stopped[c]

\* C26: the two variants have the same observable effects.  Every step of the
\* bridge but the tail of the spawned task is the same text in both files, so
\* they agree exactly when a spawned task that has run to its end has closed
\* its sink whichever variant is running.
C26_VariantsAgree ==
  \A c \in Cycles : (rt[c] = "alive" /\ orch[c] = "done") => Closed(c)

====
